---- MODULE Spec2Model ----
(***************************************************************************)
(* A model of the rasengan node runtime (src/lib.rs: main_loop, Message)   *)
(* and of the two node implementations built on it (src/bin/broadcast.rs,  *)
(* src/bin/unique-ids.rs).                                                 *)
(*                                                                         *)
(* Spec      one node process: the handshake, the stdin thread, the timer  *)
(*           thread, the mpsc queue and the consuming loop.                *)
(* SpecNode  the broadcast node's step handler on every event sequence.    *)
(* SpecNet   several broadcast nodes whose outputs are delivered to each   *)
(*           other; FairNet adds the fairness of timers and delivery.      *)
(* Output writes are taken to succeed.                                     *)
(***************************************************************************)
EXTENDS Integers, Sequences, FiniteSets, TLC

\* ------------------------------------------------------------------ bounds
\* requests the clients send in SpecNet
MaxClientSends == 3
\* lines the stdin thread reads after the init line
MaxInput == 2
\* ticks the timer thread produces
MaxTicks == 2
\* events the step handler is given in SpecNode
MaxEvents == 5

\* ------------------------------------------------------------- wire values
\* Option::None of Body.id / Body.in_reply_to (MessageID is usize, so >= 0)
NoId == -1
\* the message ids clients broadcast
BroadcastIds == 0..1

\* the node under test, its peer named in init.node_ids, and a stranger
OwnId == "n1"
PeerId == "n2"
StrangerId == "n3"
ClientId == "c1"
\* init.node_ids
InitNodeIds == <<OwnId, PeerId>>

Range(s) == {s[i] : i \in 1..Len(s)}
Last(s) == s[Len(s)]

\* lib.rs Message / Body: one decoded JSON line
Msg(src, dst, id, irt, payload) ==
    [src |-> src, dst |-> dst, id |-> id, in_reply_to |-> irt, payload |-> payload]

\* payload tags each schema accepts (serde tag = "type")
InitTags == {"init", "init_ok"}
BroadcastTags ==
    {"broadcast", "broadcast_ok", "read", "read_ok", "topology", "topology_ok", "gossip"}
UniqueTags == {"generate", "generate_ok"}

\* serde_json::from_str::<Message<P>>: fails on a line that is not a message
\* object or whose type tag is not a variant of P
Decodes(line, tags) ==
    /\ "payload" \in DOMAIN line
    /\ line.payload.type \in tags

\* ------------------------------------------------------------ Message
\* into_reply with a slip: the counter's value is used without incrementing
into_reply_stale(m, counter) ==
    Msg(m.dst, m.src, counter, m.id, m.payload)

\* into_reply with a slip: src and dst are not swapped
into_reply_noswap(m, counter) ==
    Msg(m.src, m.dst, counter + 1, m.id, m.payload)

\* lib.rs Message::into_reply with id = Some(&mut counter): the counter is
\* incremented first and the new value is the reply's msg_id
into_reply(m, counter) ==
    Msg(m.dst, m.src, counter + 1, m.id, m.payload)

\* InitOkReply with a slip: src and dst are not swapped
InitOkReply_noswap(init_msg) ==
    Msg(init_msg.src, init_msg.dst, 0, init_msg.id, [type |-> "init_ok"])

\* lib.rs main_loop: the init_ok reply is built directly, with id Some(0)
InitOkReply(init_msg) ==
    Msg(init_msg.dst, init_msg.src, 0, init_msg.id, [type |-> "init_ok"])

\* ------------------------------------------------------------ Event
MessageEvent(m) == [ev |-> "Message", msg |-> m]
InjectedEvent == [ev |-> "Injected"]
ShutdownEvent == [ev |-> "Shutdown"]

\* ------------------------------------------------------------ broadcast node
\* broadcast.rs BroadcastNode::from_init, the value of Ok(Self { .. })
BroadcastFromInit(init) ==
    [node |-> init.node_id,
     id |-> 1,
     messages |-> {},
     known |-> [n \in Range(init.node_ids) |-> {}],
     neighbors |-> <<>>]

\* the outcome of one call of step: the node afterwards, the lines written to
\* the output, and whether the call returned ("ok") or panicked ("panic")
StepResult(self, written, status) ==
    [node |-> self, out |-> written, status |-> status]

\* OnBroadcast with a slip: the delivered set is overwritten, not extended
OnBroadcast_forget(self, reply) ==
    StepResult([self EXCEPT !.messages = {reply.payload.message}],
               <<[reply EXCEPT !.payload = [type |-> "broadcast_ok"]]>>, "ok")

\* broadcast.rs step, Payload::Broadcast arm
OnBroadcast(self, reply) ==
    StepResult([self EXCEPT !.messages = @ \cup {reply.payload.message}],
               <<[reply EXCEPT !.payload = [type |-> "broadcast_ok"]]>>, "ok")

\* OnRead with a slip: the reply carries a fresh empty set
OnRead_empty(self, reply) ==
    StepResult(self,
               <<[reply EXCEPT !.payload = [type |-> "read_ok", messages |-> {}]]>>,
               "ok")

\* broadcast.rs step, Payload::Read arm
OnRead(self, reply) ==
    StepResult(self,
               <<[reply EXCEPT !.payload =
                     [type |-> "read_ok", messages |-> self.messages]]>>,
               "ok")

\* OnTopology with a slip: the new neighbors are added to the old ones
OnTopology_append(self, reply) ==
    LET topology == reply.payload.topology
    IN  StepResult([self EXCEPT !.neighbors =
                        IF self.node \in DOMAIN topology
                        THEN @ \o topology[self.node] ELSE @],
                   <<[reply EXCEPT !.payload = [type |-> "topology_ok"]]>>, "ok")

\* broadcast.rs step, Payload::Topology arm:
\* topology.remove(&self.node).unwrap_or(Vec::new())
OnTopology(self, reply) ==
    LET topology == reply.payload.topology
    IN  StepResult([self EXCEPT !.neighbors =
                        IF self.node \in DOMAIN topology
                        THEN topology[self.node] ELSE <<>>],
                   <<[reply EXCEPT !.payload = [type |-> "topology_ok"]]>>, "ok")

\* OnGossip with a slip: an unknown sender gets a fresh entry, as with
\* entry(..).or_default()
OnGossip_insert(self, reply) ==
    LET keys == DOMAIN self.known \cup {reply.dst}
        old(n) == IF n \in DOMAIN self.known THEN self.known[n] ELSE {}
    IN  StepResult([self EXCEPT !.known =
                        [n \in keys |->
                            IF n = reply.dst THEN old(n) \cup reply.payload.seen
                            ELSE old(n)]],
                   <<>>, "ok")

\* OnGossip with a slip: the seen ids are also put into the delivered set
OnGossip_delivers(self, reply) ==
    IF reply.dst \in DOMAIN self.known
    THEN StepResult([self EXCEPT !.known[reply.dst] = @ \cup reply.payload.seen,
                                 !.messages = @ \cup reply.payload.seen],
                    <<>>, "ok")
    ELSE StepResult(self, <<>>, "panic")

\* OnGossip with a slip: the seen set replaces the entry instead of extending it
OnGossip_replace(self, reply) ==
    IF reply.dst \in DOMAIN self.known
    THEN StepResult([self EXCEPT !.known[reply.dst] = reply.payload.seen],
                    <<>>, "ok")
    ELSE StepResult(self, <<>>, "panic")

\* broadcast.rs step, Payload::Gossip arm: reply.dst is the sender of the
\* gossip; get_mut(..).expect(..) panics when the map has no such key
OnGossip(self, reply) ==
    IF reply.dst \in DOMAIN self.known
    THEN StepResult([self EXCEPT !.known[reply.dst] = @ \cup reply.payload.seen],
                    <<>>, "ok")
    ELSE StepResult(self, <<>>, "panic")

\* BroadcastStepMessage with a slip: the counter advances only when a reply
\* is sent
BroadcastStepMessage_lazyid(self, input) ==
    LET reply == into_reply(input, self.id)
        s1 == [self EXCEPT !.id = reply.id]
        t == reply.payload.type
    IN  CASE t = "broadcast" -> OnBroadcast(s1, reply)
          [] t = "read" -> OnRead(s1, reply)
          [] t = "topology" -> OnTopology(s1, reply)
          [] t = "gossip" -> OnGossip(self, reply)
          [] OTHER -> StepResult(self, <<>>, "ok")

\* broadcast.rs step, Event::Message arm
BroadcastStepMessage(self, input) ==
    LET reply == into_reply(input, self.id)
        s1 == [self EXCEPT !.id = reply.id]
        t == reply.payload.type
    IN  CASE t = "broadcast" -> OnBroadcast(s1, reply)
          [] t = "read" -> OnRead(s1, reply)
          [] t = "topology" -> OnTopology(s1, reply)
          [] t = "gossip" -> OnGossip(s1, reply)
          [] OTHER -> StepResult(s1, <<>>, "ok")

\* broadcast.rs step, Event::Injected arm, the locals of one loop iteration.
\* (known_to_neighbor.len() as f64 * 0.1) as usize truncates, and the f64
\* product of n and 0.1 is never below n / 10, so the cap is n \div 10.
additional_cap(self, neighbor) ==
    Cardinality(self.known[neighbor]) \div 10

already_known(self, neighbor) ==
    {m \in self.messages : m \in self.known[neighbor]}

\* The subsets of already_known the filter can let through: every element is
\* kept when rng.gen_ratio(min(cap, len), len) is true, independently of the
\* others. gen_ratio(0, n) is never true and gen_ratio(n, n) always is.
SampleChoices(self, neighbor) ==
    LET ak == already_known(self, neighbor)
        cap == additional_cap(self, neighbor)
        numerator == IF cap < Cardinality(ak) THEN cap ELSE Cardinality(ak)
    IN  IF numerator = 0 THEN {{}}
        ELSE IF numerator = Cardinality(ak) THEN {ak}
        ELSE SUBSET ak

\* the partition and the extend of one iteration, for one outcome of the filter
GossipRound(self, neighbor, sampled) ==
    [neighbor |-> neighbor,
     known_to_neighbor |-> self.known[neighbor],
     already_known |-> already_known(self, neighbor),
     notify_of |-> (self.messages \ self.known[neighbor]) \cup sampled]

\* every outcome of the random draws of one tick, one set per neighbor position
Samples(self) ==
    {s \in [1..Len(self.neighbors) -> SUBSET self.messages] :
        \A i \in 1..Len(self.neighbors) :
            s[i] \in IF self.neighbors[i] \in DOMAIN self.known
                     THEN SampleChoices(self, self.neighbors[i]) ELSE {{}}}

\* the iterations the loop over self.neighbors completes: known.get(neighbor)
\* .unwrap() panics at the first neighbor the map has no key for
RoundsDone(self) ==
    LET bad == {i \in 1..Len(self.neighbors) :
                    self.neighbors[i] \notin DOMAIN self.known}
    IN  IF bad = {} THEN Len(self.neighbors)
        ELSE (CHOOSE i \in bad : \A j \in bad : i <= j) - 1

Rounds(self, sample) ==
    [i \in 1..RoundsDone(self) |-> GossipRound(self, self.neighbors[i], sample[i])]

\* broadcast.rs step, Event::Injected arm: notify_of is computed for each
\* neighbor and dropped at the end of the iteration; nothing is written
BroadcastStepInjected(self) ==
    StepResult(self, <<>>,
               IF RoundsDone(self) = Len(self.neighbors) THEN "ok" ELSE "panic")

\* broadcast.rs step
BroadcastStep(self, input) ==
    CASE input.ev = "Shutdown" -> StepResult(self, <<>>, "ok")
      [] input.ev = "Injected" -> BroadcastStepInjected(self)
      [] input.ev = "Message" -> BroadcastStepMessage(self, input.msg)

\* ------------------------------------------------------------ unique-id node
\* unique-ids.rs UniqueIDNode::from_init
UniqueFromInit(init) ==
    [id |-> 1, node |-> init.node_id, counter |-> 1]

\* unique-ids.rs step: any event that is not Event::Message panics;
\* format!("{}-{}", node, counter) is kept as the pair it is built from
UniqueStep(self, input) ==
    IF input.ev # "Message" THEN StepResult(self, <<>>, "panic")
    ELSE LET reply == into_reply(input.msg, self.id)
             s1 == [self EXCEPT !.id = reply.id]
         IN  IF reply.payload.type = "generate"
             THEN StepResult([s1 EXCEPT !.counter = @ + 1],
                             <<[reply EXCEPT !.payload =
                                   [type |-> "generate_ok",
                                    id |-> <<self.node, self.counter>>]]>>,
                             "ok")
             ELSE StepResult(s1, <<>>, "ok")

\* ------------------------------------------------------------ input
NotJson == [raw |-> "not a message"]

\* the init line: {"type": "init", "node_id": .., "node_ids": ..}
InitLine(id) ==
    Msg(ClientId, OwnId, id, NoId,
        [type |-> "init", node_id |-> OwnId, node_ids |-> InitNodeIds])

\* what stdin.next() can yield for the first line
FirstReads ==
    {[read |-> "line", line |-> l] :
        l \in {InitLine(1),
               Msg(ClientId, OwnId, 1, NoId, [type |-> "init_ok"]), NotJson}}
    \cup {[read |-> "eof"], [read |-> "err"]}

\* HandshakeOutcome with a slip: any line that decodes is taken as init
HandshakeOutcome_lenient(r) ==
    CASE r.read = "eof" -> "panic"
      [] r.read = "err" -> "err"
      [] ~Decodes(r.line, InitTags) -> "err"
      [] OTHER -> "ok"

\* lib.rs main_loop, the handshake up to the let-else: "ok" when the line is an
\* init message, "err" for the two `?`, "panic" for expect() and panic!()
HandshakeOutcome(r) ==
    CASE r.read = "eof" -> "panic"
      [] r.read = "err" -> "err"
      [] ~Decodes(r.line, InitTags) -> "err"
      [] r.line.payload.type # "init" -> "panic"
      [] OTHER -> "ok"

\* seen sets a peer's gossip can carry
GossipSets == {0..9, {1, 10}}

\* topology maps the harness can send
Topologies ==
    {[n \in {OwnId} |-> <<PeerId>>],
     [n \in {PeerId} |-> <<OwnId>>],
     [n \in {OwnId} |-> <<StrangerId>>]}

\* lines that follow the init line
InputLines ==
    {Msg(ClientId, OwnId, 1, NoId, [type |-> "broadcast", message |-> b]) :
        b \in BroadcastIds}
    \cup {Msg(ClientId, OwnId, NoId, NoId, [type |-> "read"])}
    \cup {Msg(ClientId, OwnId, 3, NoId, [type |-> "topology", topology |-> t]) :
            t \in Topologies}
    \cup {Msg(PeerId, OwnId, NoId, NoId, [type |-> "gossip", seen |-> s]) :
            s \in GossipSets}
    \cup {Msg(StrangerId, OwnId, NoId, NoId, [type |-> "gossip", seen |-> {0}])}
    \cup {Msg(PeerId, OwnId, 7, 2, [type |-> "broadcast_ok"])}
    \cup {Msg(ClientId, OwnId, 1, NoId, [type |-> "generate"])}
    \cup {Msg(ClientId, OwnId, NoId, 4, [type |-> "generate_ok", id |-> <<PeerId, 1>>])}
    \cup {Msg(ClientId, OwnId, 1, NoId, [type |-> "echo"])}
    \cup {NotJson}

\* ------------------------------------------------------------ state
VARIABLES
    kind,       \* which binary runs: "broadcast" or "unique"
    mainpc,     \* where main_loop is
    init_msg,   \* main_loop's init_msg
    node,       \* main_loop's node
    out,        \* the lines written to stdout, in order
    queue,      \* the events in the mpsc channel, oldest first
    rx,         \* whether the Receiver exists
    senders,    \* the Sender handles that exist: tx and the clone _tx
    jh,         \* the stdin thread
    timer,      \* the thread spawned by BroadcastNode::from_init
    nread,      \* lines the stdin thread has read
    nticks,     \* ticks the timer thread has enqueued
    enqueued,   \* every event a send put on the channel, in order
    stepped,    \* every event passed to step, in order
    round,      \* the locals of the last dissemination round, per neighbor
    nodes,      \* SpecNet: the broadcast nodes
    net,        \* SpecNet: the messages in flight
    sent        \* SpecNet: how many requests the clients have sent

procvars ==
    <<kind, mainpc, init_msg, node, out, queue, rx, senders, jh, timer, nread,
      nticks, enqueued, stepped, round>>
netvars == <<nodes, net, sent>>
vars == <<procvars, netvars>>

Absent == [absent |-> TRUE]

PayloadTags == IF kind = "broadcast" THEN BroadcastTags ELSE UniqueTags

Init ==
    /\ kind \in {"broadcast", "unique"}
    /\ mainpc = "start"
    /\ init_msg = Absent
    /\ node = Absent
    /\ out = <<>>
    /\ queue = <<>>
    /\ rx = TRUE
    /\ senders = {"tx"}
    /\ jh = "none"
    /\ timer = "none"
    /\ nread = 0
    /\ nticks = 0
    /\ enqueued = <<>>
    /\ stepped = <<>>
    /\ round = <<>>
    /\ nodes = <<>>
    /\ net = {}
    /\ sent = 0

\* ------------------------------------------------------------ the channel
\* Enqueue with a slip: the event is put ahead of those queued
Enqueue_front(q, ev) == <<ev>> \o q

\* std::sync::mpsc: Sender::send puts the event behind those already queued
Enqueue(q, ev) == Append(q, ev)

\* the Receiver's iterator takes the oldest event
Dequeue(q) == [ev |-> Head(q), rest |-> Tail(q)]

\* ------------------------------------------------------------ main_loop
\* lib.rs main_loop: the first line is read and is an init message
ReadInit ==
    /\ mainpc = "start"
    /\ \E r \in FirstReads :
        /\ HandshakeOutcome(r) = "ok"
        /\ init_msg' = r.line
    /\ mainpc' = "from_init"
    /\ UNCHANGED <<kind, node, out, queue, rx, senders, jh, timer, nread, nticks,
                   enqueued, stepped, round, netvars>>

\* lib.rs main_loop: the first line is missing, unreadable, malformed or not
\* init; main_loop returns the error or panics, dropping tx and rx
ReadInitFails ==
    /\ mainpc = "start"
    /\ \E r \in FirstReads :
        /\ HandshakeOutcome(r) # "ok"
        /\ mainpc' = HandshakeOutcome(r)
    /\ rx' = FALSE
    /\ senders' = {}
    /\ UNCHANGED <<kind, init_msg, node, out, queue, jh, timer, nread, nticks,
                   enqueued, stepped, round, netvars>>

\* lib.rs main_loop: Node::from_init(init_state, init, tx.clone()).
\* BroadcastNode moves the clone into the timer thread it spawns;
\* UniqueIDNode drops it on return.
FromInit ==
    /\ mainpc = "from_init"
    /\ IF kind = "broadcast"
       THEN /\ node' = BroadcastFromInit(init_msg.payload)
            /\ timer' = "running"
            /\ senders' = senders \cup {"_tx"}
       ELSE /\ node' = UniqueFromInit(init_msg.payload)
            /\ UNCHANGED <<timer, senders>>
    /\ mainpc' = "init_ok"
    /\ UNCHANGED <<kind, init_msg, out, queue, rx, jh, nread, nticks, enqueued,
                   stepped, round, netvars>>

\* lib.rs main_loop: the init_ok reply is written
WriteInitOk ==
    /\ mainpc = "init_ok"
    /\ out' = Append(out, InitOkReply(init_msg))
    /\ mainpc' = "spawn"
    /\ UNCHANGED <<kind, init_msg, node, queue, rx, senders, jh, timer, nread,
                   nticks, enqueued, stepped, round, netvars>>

\* lib.rs main_loop: the stdin thread is spawned and owns tx from now on
SpawnStdin ==
    /\ mainpc = "spawn"
    /\ jh' = "running"
    /\ mainpc' = "loop"
    /\ UNCHANGED <<kind, init_msg, node, out, queue, rx, senders, timer, nread,
                   nticks, enqueued, stepped, round, netvars>>

\* the node implementation's step and the outcomes of its random draws
Step(self, input) ==
    IF kind = "broadcast" THEN BroadcastStep(self, input) ELSE UniqueStep(self, input)

Draws(self, input) ==
    IF kind = "broadcast" /\ input.ev = "Injected" THEN Samples(self) ELSE {<<>>}

\* lib.rs main_loop, the body of `for input in rx`: node.step(input, ..) with
\* `rest` the events queued behind input. A panic of step unwinds main_loop,
\* which drops rx and the events still queued.
StepCall(input, rest) ==
    LET r == Step(node, input)
    IN  /\ stepped' = Append(stepped, input)
        /\ node' = r.node
        /\ out' = out \o r.out
        /\ \E sample \in Draws(node, input) :
             round' = IF kind = "broadcast" /\ input.ev = "Injected"
                      THEN Rounds(node, sample) ELSE round
        /\ IF r.status = "ok"
           THEN /\ queue' = rest
                /\ UNCHANGED <<mainpc, rx>>
           ELSE /\ queue' = <<>>
                /\ mainpc' = "panic"
                /\ rx' = FALSE

\* lib.rs main_loop: one iteration of `for input in rx`
LoopStep ==
    /\ mainpc = "loop"
    /\ queue # <<>>
    /\ StepCall(Dequeue(queue).ev, Dequeue(queue).rest)
    /\ UNCHANGED <<kind, init_msg, senders, jh, timer, nread, nticks, enqueued,
                   netvars>>

\* lib.rs main_loop: the iterator ends when the queue is empty and no Sender
\* is left; rx is dropped with the loop
LoopEnd ==
    /\ mainpc = "loop"
    /\ queue = <<>>
    /\ senders = {}
    /\ mainpc' = "join"
    /\ rx' = FALSE
    /\ UNCHANGED <<kind, init_msg, node, out, queue, senders, jh, timer, nread,
                   nticks, enqueued, stepped, round, netvars>>

\* lib.rs main_loop: jh.join() and the thread's result
Join ==
    /\ mainpc = "join"
    /\ jh \in {"ok", "read_err", "decode_err"}
    /\ mainpc' = IF jh = "ok" THEN "done" ELSE "err"
    /\ UNCHANGED <<kind, init_msg, node, out, queue, rx, senders, jh, timer,
                   nread, nticks, enqueued, stepped, round, netvars>>

\* ------------------------------------------------------------ stdin thread
\* StdinMessage with a slip: a failed send is returned as the thread's error
StdinMessage_failing ==
    /\ jh = "running"
    /\ nread < MaxInput
    /\ \E line \in InputLines :
        /\ Decodes(line, PayloadTags)
        /\ IF rx
           THEN /\ queue' = Enqueue(queue, MessageEvent(line))
                /\ enqueued' = Append(enqueued, MessageEvent(line))
                /\ UNCHANGED <<jh, senders>>
           ELSE /\ jh' = "read_err"
                /\ senders' = senders \ {"tx"}
                /\ UNCHANGED <<queue, enqueued>>
    /\ nread' = nread + 1
    /\ UNCHANGED <<kind, mainpc, init_msg, node, out, rx, timer, nticks,
                   stepped, round, netvars>>

\* lib.rs main_loop, the spawned closure: a line is read, decoded and sent;
\* a failed send (the Receiver is gone) ends the thread with Ok
StdinMessage ==
    /\ jh = "running"
    /\ nread < MaxInput
    /\ \E line \in InputLines :
        /\ Decodes(line, PayloadTags)
        /\ IF rx
           THEN /\ queue' = Enqueue(queue, MessageEvent(line))
                /\ enqueued' = Append(enqueued, MessageEvent(line))
                /\ UNCHANGED <<jh, senders>>
           ELSE /\ jh' = "ok"
                /\ senders' = senders \ {"tx"}
                /\ UNCHANGED <<queue, enqueued>>
    /\ nread' = nread + 1
    /\ UNCHANGED <<kind, mainpc, init_msg, node, out, rx, timer, nticks,
                   stepped, round, netvars>>

\* the closure returns the error of the first `?`: the read failed
StdinReadError ==
    /\ jh = "running"
    /\ jh' = "read_err"
    /\ senders' = senders \ {"tx"}
    /\ UNCHANGED <<kind, mainpc, init_msg, node, out, queue, rx, timer, nread,
                   nticks, enqueued, stepped, round, netvars>>

\* the closure returns the error of the second `?`: the line does not decode
StdinDecodeError ==
    /\ jh = "running"
    /\ nread < MaxInput
    /\ \E line \in InputLines : ~Decodes(line, PayloadTags)
    /\ jh' = "decode_err"
    /\ senders' = senders \ {"tx"}
    /\ nread' = nread + 1
    /\ UNCHANGED <<kind, mainpc, init_msg, node, out, queue, rx, timer, nticks,
                   enqueued, stepped, round, netvars>>

\* the input ends: `let _ = tx.send(Event::Shutdown)` and Ok
StdinEof ==
    /\ jh = "running"
    /\ IF rx
       THEN /\ queue' = Enqueue(queue, ShutdownEvent)
            /\ enqueued' = Append(enqueued, ShutdownEvent)
       ELSE UNCHANGED <<queue, enqueued>>
    /\ jh' = "ok"
    /\ senders' = senders \ {"tx"}
    /\ UNCHANGED <<kind, mainpc, init_msg, node, out, rx, timer, nread, nticks,
                   stepped, round, netvars>>

\* ------------------------------------------------------------ timer thread
\* broadcast.rs from_init, the spawned loop: after the sleep an Injected event
\* is sent; a failed send breaks the loop and drops the clone
TimerTick ==
    /\ timer = "running"
    /\ IF rx
       THEN /\ nticks < MaxTicks
            /\ queue' = Enqueue(queue, InjectedEvent)
            /\ enqueued' = Append(enqueued, InjectedEvent)
            /\ nticks' = nticks + 1
            /\ UNCHANGED <<timer, senders>>
       ELSE /\ timer' = "stopped"
            /\ senders' = senders \ {"_tx"}
            /\ UNCHANGED <<queue, enqueued, nticks>>
    /\ UNCHANGED <<kind, mainpc, init_msg, node, out, rx, jh, nread, stepped,
                   round, netvars>>

Next ==
    \/ ReadInit
    \/ ReadInitFails
    \/ FromInit
    \/ WriteInitOk
    \/ SpawnStdin
    \/ LoopStep
    \/ LoopEnd
    \/ Join
    \/ StdinMessage
    \/ StdinReadError
    \/ StdinDecodeError
    \/ StdinEof
    \/ TimerTick

Spec == Init /\ [][Next]_vars

\* ------------------------------------------------------------ SpecNode
\* The broadcast node's step handler on every sequence of events: the process
\* has completed the handshake and, in each step, one event is sent on the
\* empty channel and taken by the loop at once.
InitNode ==
    /\ kind = "broadcast"
    /\ mainpc = "loop"
    /\ init_msg = InitLine(1)
    /\ node = BroadcastFromInit(InitLine(1).payload)
    /\ out = <<InitOkReply(InitLine(1))>>
    /\ queue = <<>>
    /\ rx = TRUE
    /\ senders = {"tx", "_tx"}
    /\ jh = "running"
    /\ timer = "running"
    /\ nread = 0
    /\ nticks = 0
    /\ enqueued = <<>>
    /\ stepped = <<>>
    /\ round = <<>>
    /\ nodes = <<>>
    /\ net = {}
    /\ sent = 0

\* a line arrives and is stepped
NodeMessage ==
    /\ mainpc = "loop"
    /\ Len(stepped) < MaxEvents
    /\ \E line \in InputLines :
        /\ Decodes(line, PayloadTags)
        /\ enqueued' = Append(enqueued, MessageEvent(line))
        /\ StepCall(MessageEvent(line), <<>>)
    /\ UNCHANGED <<kind, init_msg, senders, jh, timer, nread, nticks, netvars>>

\* the timer fires and the tick is stepped
NodeTick ==
    /\ mainpc = "loop"
    /\ Len(stepped) < MaxEvents
    /\ enqueued' = Append(enqueued, InjectedEvent)
    /\ StepCall(InjectedEvent, <<>>)
    /\ UNCHANGED <<kind, init_msg, senders, jh, timer, nread, nticks, netvars>>

\* the input ends and the Shutdown event is stepped
NodeShutdown ==
    /\ mainpc = "loop"
    /\ Len(stepped) < MaxEvents
    /\ jh = "running"
    /\ enqueued' = Append(enqueued, ShutdownEvent)
    /\ StepCall(ShutdownEvent, <<>>)
    /\ jh' = "ok"
    /\ senders' = senders \ {"tx"}
    /\ UNCHANGED <<kind, init_msg, timer, nread, nticks, netvars>>

NextNode ==
    \/ NodeMessage
    \/ NodeTick
    \/ NodeShutdown

SpecNode == InitNode /\ [][NextNode]_vars

\* ------------------------------------------------------------ SpecNet
\* Broadcast nodes n1 and n2, each past its handshake, with every line a node
\* writes delivered to the node it is addressed to (no loss), ticks at every
\* node, and clients that send Broadcast, Read and Topology requests.
NetNodes == Range(InitNodeIds)

\* the connected topology over NetNodes
NetTopology == [n \in NetNodes |-> IF n = OwnId THEN <<PeerId>> ELSE <<OwnId>>]

ClientRequests ==
    {Msg(ClientId, n, 1, NoId, p) :
        n \in NetNodes,
        p \in {[type |-> "broadcast", message |-> b] : b \in BroadcastIds}
              \cup {[type |-> "read"]}
              \cup {[type |-> "topology", topology |-> NetTopology]}}

InitNet ==
    /\ nodes = [n \in NetNodes |->
                  BroadcastFromInit([type |-> "init", node_id |-> n,
                                     node_ids |-> InitNodeIds])]
    /\ net = {}
    /\ sent = 0
    /\ kind = "broadcast"
    /\ mainpc = "loop"
    /\ init_msg = Absent
    /\ node = Absent
    /\ out = <<>>
    /\ queue = <<>>
    /\ rx = TRUE
    /\ senders = {"tx", "_tx"}
    /\ jh = "running"
    /\ timer = "running"
    /\ nread = 0
    /\ nticks = 0
    /\ enqueued = <<>>
    /\ stepped = <<>>
    /\ round = <<>>

\* a client writes a request to a node
ClientSend ==
    /\ sent < MaxClientSends
    /\ \E m \in ClientRequests : net' = net \cup {m}
    /\ sent' = sent + 1
    /\ UNCHANGED <<nodes, procvars>>

\* a client takes a reply addressed to it
ClientReceive ==
    /\ \E m \in net :
        /\ m.dst \notin NetNodes
        /\ net' = net \ {m}
    /\ UNCHANGED <<nodes, sent, procvars>>

\* a message in flight reaches its node, whose step handles it; what the
\* step writes is in flight next
Deliver ==
    /\ \E m \in net :
        /\ m.dst \in NetNodes
        /\ LET r == BroadcastStep(nodes[m.dst], MessageEvent(m))
           IN  /\ r.status = "ok"
               /\ nodes' = [nodes EXCEPT ![m.dst] = r.node]
               /\ net' = (net \ {m}) \cup Range(r.out)
    /\ UNCHANGED <<sent, procvars>>

\* the timer of node n fires and its step handles the Injected event
NetTick(n) ==
    /\ LET r == BroadcastStep(nodes[n], InjectedEvent)
       IN  /\ r.status = "ok"
           /\ nodes' = [nodes EXCEPT ![n] = r.node]
           /\ net' = net \cup Range(r.out)
    /\ UNCHANGED <<sent, procvars>>

NetTicks == \E n \in NetNodes : NetTick(n)

NextNet ==
    \/ ClientSend
    \/ ClientReceive
    \/ Deliver
    \/ NetTicks

SpecNet == InitNet /\ [][NextNet]_vars

\* every timer thread keeps ticking, every written line is delivered and
\* every event queued at a node is stepped
FairNet ==
    /\ SpecNet
    /\ WF_vars(Deliver)
    /\ WF_vars(ClientReceive)
    /\ \A n \in NetNodes : WF_vars(NetTick(n))

\* ------------------------------------------------------------ properties
Constructed == mainpc \in {"init_ok", "spawn", "loop", "join", "done"}

\* the step that passes an event to the step handler, and that event
Stepping == stepped' # stepped
Input == Last(stepped')
\* what that step wrote
Written == SubSeq(out', Len(out) + 1, Len(out'))

\* C1: once anything has been written, the first line written is init_ok with
\* src = init.dest, dest = init.src, msg_id = 0 and in_reply_to = init.msg_id;
\* and the stdin thread is not started, no later line is read and no event is
\* stepped before that line has been written.
HandshakeFirst ==
    /\ out # <<>> =>
        /\ init_msg # Absent
        /\ out[1].payload = [type |-> "init_ok"]
        /\ out[1].src = init_msg.dst
        /\ out[1].dst = init_msg.src
        /\ out[1].id = 0
        /\ out[1].in_reply_to = init_msg.id
    /\ (jh # "none" \/ nread > 0 \/ stepped # <<>>) => out # <<>>
    /\ mainpc \in {"spawn", "loop", "join", "done"} => out # <<>>

HandshakeFirst_witness ==
    /\ Len(out) >= 2
    /\ out[1].payload.type = "init_ok"
    /\ out[1].in_reply_to = 1
    /\ stepped # <<>>

\* C2: when the broadcast node steps a Broadcast, Read or Topology message m,
\* it writes one reply with dest = m.src, src = m.dest and
\* in_reply_to = m.msg_id (absent when m has none).
ReplyCorrect ==
    [][(/\ Stepping
        /\ Input.ev = "Message"
        /\ Input.msg.payload.type \in {"broadcast", "read", "topology"})
       => /\ Len(Written) = 1
          /\ Written[1].dst = Input.msg.src
          /\ Written[1].src = Input.msg.dst
          /\ Written[1].in_reply_to = Input.msg.id]_vars

ReplyCorrect_witness ==
    /\ Len(stepped) >= 3
    /\ Last(stepped).ev = "Message"
    /\ Last(stepped).msg.payload.type = "read"
    /\ Last(stepped).msg.id = NoId
    /\ Last(out).payload.type = "read_ok"
    /\ Last(out).in_reply_to = NoId
    /\ \E i \in 1..Len(out) : out[i].payload.type = "broadcast_ok" /\ out[i].in_reply_to = 1

\* the ids of the Broadcast messages stepped so far
Broadcasted ==
    {stepped[i].msg.payload.message :
        i \in {j \in 1..Len(stepped) :
                 /\ stepped[j].ev = "Message"
                 /\ stepped[j].msg.payload.type = "broadcast"}}

\* C5: a Read is answered with one read_ok whose messages are the delivered
\* set at that moment, which holds every id broadcast before; the Read leaves
\* the delivered set, the knowledge map and the neighbor list unchanged.
ReadExact ==
    [][(/\ Stepping
        /\ Input.ev = "Message"
        /\ Input.msg.payload.type = "read")
       => /\ Len(Written) = 1
          /\ Written[1].payload = [type |-> "read_ok", messages |-> node.messages]
          /\ Broadcasted \subseteq Written[1].payload.messages
          /\ node'.messages = node.messages
          /\ node'.known = node.known
          /\ node'.neighbors = node.neighbors]_vars

ReadExact_witness ==
    /\ Len(stepped) >= 2
    /\ Last(stepped).ev = "Message"
    /\ Last(stepped).msg.payload.type = "read"
    /\ Last(out).payload.type = "read_ok"
    /\ Last(out).payload.messages = BroadcastIds

\* C6: no step removes an element from the delivered set or from a
\* per-neighbor knowledge set.
Monotonic ==
    [][(Constructed /\ kind = "broadcast") =>
        /\ node.messages \subseteq node'.messages
        /\ \A n \in DOMAIN node.known :
            /\ n \in DOMAIN node'.known
            /\ node.known[n] \subseteq node'.known[n]]_vars

Monotonic_witness ==
    /\ mainpc = "loop"
    /\ node.messages # {}
    /\ node.known[PeerId] = 0..10
    /\ \E i \in 1..Len(stepped) : stepped[i] \in {InjectedEvent, ShutdownEvent}

\* C8: the events passed to step are, in order, the first events sent on the
\* channel, each once; and while the loop runs every event sent is either
\* passed already or still queued, in the order sent.
EventOrder ==
    /\ Len(stepped) <= Len(enqueued)
    /\ stepped = SubSeq(enqueued, 1, Len(stepped))
    /\ mainpc = "loop" => enqueued = stepped \o queue

EventOrder_witness ==
    /\ Len(stepped) >= 3
    /\ stepped[1].ev = "Message"
    /\ stepped[2].ev = "Injected"
    /\ stepped[3].ev = "Message"
    /\ Len(queue) >= 1

\* the ids broadcast to some node so far
NetBroadcasted == UNION {nodes[n].messages : n \in NetNodes}

\* every node has been given the connected topology
TopologyInstalled == \A n \in NetNodes : nodes[n].neighbors = NetTopology[n]

Converged == \A n \in NetNodes : nodes[n].messages = NetBroadcasted

\* C3: with the connected topology installed at every node, fair ticks and
\* lossless delivery, eventually the delivered sets of all nodes are equal
\* for good and hold every id that was broadcast.
Convergence == <>[](TopologyInstalled => Converged)

\* C4: a tick writes, for every neighbor N that has a knowledge entry and ids
\* it is not recorded as knowing, a Gossip message addressed to N whose seen
\* set holds all of those ids.
DisseminationSends ==
    [][(/\ Stepping
        /\ Input = InjectedEvent
        /\ mainpc' = "loop")
       => \A i \in 1..Len(node.neighbors) :
            LET N == node.neighbors[i]
                unknown == node.messages \ node.known[N]
            IN  unknown # {} =>
                  \E j \in 1..Len(Written) :
                      /\ Written[j].dst = N
                      /\ Written[j].payload.type = "gossip"
                      /\ unknown \subseteq Written[j].payload.seen]_vars

\* C7: in every dissemination round, for every neighbor N, the number of
\* already-known ids added to notify_of is at most ceil(|knowledge[N]| * 0.1),
\* and is 0 when knowledge[N] is empty.
RedundancyBound ==
    \A i \in 1..Len(round) :
        LET resent == round[i].notify_of \cap round[i].already_known
            n == Cardinality(round[i].known_to_neighbor)
        IN  /\ Cardinality(resent) <= (n + 9) \div 10
            /\ n = 0 => resent = {}

\* C9: no event is passed to step after a Shutdown event has been.
ShutdownEndsLoop ==
    \A i \in 1..Len(stepped) : stepped[i] = ShutdownEvent => i = Len(stepped)

\* C10: after the handshake, when the input has ended without error and the
\* step handler has not failed on an event other than the end of input, the
\* process does not come to rest anywhere but in main_loop's successful
\* return.
CleanExitOnEof ==
    (/\ ShutdownEvent \in Range(enqueued)
     /\ mainpc = "panic" => Last(stepped) = ShutdownEvent
     /\ ~ENABLED Next)
    => mainpc = "done"

\* ------------------------------------------------------------ FairSpec
\* Spec with the scheduling the threads have: main_loop, once it can take a
\* step, takes it, and the timer thread wakes from every sleep. The stdin
\* thread may block on its read for ever.
FairSpec ==
    /\ Spec
    /\ WF_vars(FromInit)
    /\ WF_vars(WriteInitOk)
    /\ WF_vars(SpawnStdin)
    /\ WF_vars(LoopStep)
    /\ WF_vars(LoopEnd)
    /\ WF_vars(Join)
    /\ WF_vars(TimerTick)

StdinFailed == jh \in {"read_err", "decode_err"}

\* C11: when the stdin thread of the broadcast node has failed on a read or
\* on a line that does not decode, main_loop eventually stops: it returns
\* the thread's error (or has failed in step).
InputErrorFatal ==
    (kind = "broadcast" /\ StdinFailed) ~> (mainpc \in {"err", "panic"})

\* C12: when the stdin thread stops on a read or decode failure while the
\* Receiver exists, it sends a Shutdown event first.
ShutdownOnFailure ==
    [][(jh = "running" /\ StdinFailed' /\ rx)
       => enqueued' = Append(enqueued, ShutdownEvent)]_vars

\* C13: main_loop gets past the handshake only with a first line that is an
\* init message; as long as none has been accepted the process is at its
\* start or has aborted, and no node is constructed, nothing is written, no
\* thread is started, and no event is queued or stepped.
HandshakeFatal ==
    /\ init_msg # Absent =>
        /\ "payload" \in DOMAIN init_msg
        /\ init_msg.payload.type = "init"
    /\ init_msg = Absent =>
        /\ mainpc \in {"start", "err", "panic"}
        /\ node = Absent
        /\ out = <<>>
        /\ jh = "none"
        /\ timer = "none"
        /\ enqueued = <<>>
        /\ stepped = <<>>
    /\ mainpc \in {"from_init", "init_ok", "spawn", "loop", "join", "done"}
        => init_msg # Absent

HandshakeFatal_witness ==
    /\ mainpc = "panic"
    /\ init_msg = Absent
    /\ out = <<>>

\* the positions in stepped of the Topology messages
TopologySteps ==
    {j \in 1..Len(stepped) :
        /\ stepped[j].ev = "Message"
        /\ stepped[j].msg.payload.type = "topology"}

\* the mapping of the Topology message stepped last
LastTopology ==
    LET last == CHOOSE j \in TopologySteps : \A k \in TopologySteps : k <= j
    IN  stepped[last].msg.payload.topology

\* C14: the neighbor list is empty while no Topology has been stepped, and
\* otherwise is the own entry of the mapping of the Topology stepped last, or
\* empty when that mapping has no own entry; a Topology is answered with one
\* topology_ok and leaves the delivered set and the knowledge map unchanged.
TopologyAssignment ==
    /\ [](node # Absent =>
            node.neighbors =
                IF TopologySteps = {} THEN <<>>
                ELSE IF node.node \in DOMAIN LastTopology
                     THEN LastTopology[node.node] ELSE <<>>)
    /\ [][(/\ Stepping
           /\ Input.ev = "Message"
           /\ Input.msg.payload.type = "topology")
          => /\ Len(Written) = 1
             /\ Written[1].payload = [type |-> "topology_ok"]
             /\ node'.messages = node.messages
             /\ node'.known = node.known]_vars

TopologyAssignment_witness ==
    /\ Cardinality(TopologySteps) >= 2
    /\ \E j \in TopologySteps : stepped[j].msg.payload.topology = [n \in {OwnId} |-> <<PeerId>>]
    /\ LastTopology = [n \in {OwnId} |-> <<StrangerId>>]
    /\ node.neighbors = <<StrangerId>>
    /\ node.messages # {}
    /\ Cardinality({i \in 1..Len(out) : out[i].payload.type = "topology_ok"}) >= 2

\* C15: when the broadcast node steps Gossip{seen} from a node S of
\* init.node_ids, known[S] becomes known[S] \cup seen, nothing is written, and
\* the delivered set, the neighbor list and known[T] for T # S are unchanged.
GossipReception ==
    [][(/\ Stepping
        /\ Input.ev = "Message"
        /\ Input.msg.payload.type = "gossip"
        /\ Input.msg.src \in Range(init_msg.payload.node_ids))
       => LET S == Input.msg.src
          IN  /\ node'.known[S] = node.known[S] \cup Input.msg.payload.seen
              /\ Written = <<>>
              /\ node'.messages = node.messages
              /\ node'.neighbors = node.neighbors
              /\ DOMAIN node'.known = DOMAIN node.known
              /\ \A T \in DOMAIN node.known \ {S} : node'.known[T] = node.known[T]
              /\ mainpc' = "loop"]_vars

GossipReception_witness ==
    /\ mainpc = "loop"
    /\ Len(stepped) >= 3
    /\ Last(stepped).ev = "Message"
    /\ Last(stepped).msg.payload.type = "gossip"
    /\ Last(stepped).msg.src = PeerId
    /\ node.known[PeerId] = 0..10
    /\ node.known[OwnId] = {}
    /\ node.messages = {0}
    /\ node.neighbors = <<PeerId>>
    /\ Len(out) = 3

\* the broadcast node after the first i events of stepped: step is
\* deterministic in the node's fields, so this replays the loop
NodeAfter(i) ==
    LET after[k \in 0..Len(stepped)] ==
            IF k = 0 THEN BroadcastFromInit(init_msg.payload)
            ELSE BroadcastStep(after[k - 1], stepped[k]).node
    IN  after[i]

\* the positions in stepped of the Broadcast messages
BroadcastSteps ==
    {j \in 1..Len(stepped) :
        /\ stepped[j].ev = "Message"
        /\ stepped[j].msg.payload.type = "broadcast"}

BroadcastOf(j) == stepped[j].msg.payload.message

\* C16 as stated: after Broadcast{id} is stepped a second time, whatever was
\* stepped in between, the delivered set is what it was after the first time.
BroadcastIdempotent ==
    \A i, j \in BroadcastSteps :
        (i < j /\ BroadcastOf(i) = BroadcastOf(j))
            => NodeAfter(j).messages = NodeAfter(i).messages

\* C16 amended: stepping Broadcast{id} when id is already delivered leaves the
\* delivered set unchanged by that step, so it is what it was after the first
\* time unless a Broadcast of another id was stepped in between; every
\* Broadcast is answered with its own broadcast_ok.
BroadcastIdempotentStep ==
    /\ [](\A i, j \in BroadcastSteps :
            (/\ i < j
             /\ BroadcastOf(i) = BroadcastOf(j)
             /\ \A k \in BroadcastSteps : (i < k /\ k < j) => BroadcastOf(k) = BroadcastOf(i))
                => /\ NodeAfter(j).messages = NodeAfter(i).messages
                   /\ BroadcastOf(i) \in NodeAfter(i).messages)
    /\ [][(/\ Stepping
           /\ Input.ev = "Message"
           /\ Input.msg.payload.type = "broadcast")
          => /\ node'.messages = node.messages \cup {Input.msg.payload.message}
             /\ Input.msg.payload.message \in Broadcasted
                    => node'.messages = node.messages
             /\ Len(Written) = 1
             /\ Written[1].payload = [type |-> "broadcast_ok"]
             /\ Written[1].in_reply_to = Input.msg.id
             /\ Written[1].dst = Input.msg.src]_vars

BroadcastIdempotentStep_witness ==
    /\ Len(stepped) >= 3
    /\ BroadcastSteps = {1, Len(stepped)}
    /\ BroadcastOf(1) = BroadcastOf(Len(stepped))
    /\ stepped[2].ev = "Message"
    /\ stepped[2].msg.payload.type = "gossip"
    /\ node.messages = {BroadcastOf(1)}
    /\ Cardinality({i \in 1..Len(out) : out[i].payload.type = "broadcast_ok"}) = 2

\* C17: the msg_ids of the lines a node has written, init_ok first, are
\* strictly increasing, hence pairwise distinct.
ReplyIdsIncrease ==
    \A i, j \in 1..Len(out) : i < j => out[i].id < out[j].id

ReplyIdsIncrease_witness ==
    /\ Len(out) = 3
    /\ out[1].payload.type = "init_ok"
    /\ out[1].id = 0
    /\ out[2].id < out[3].id
    /\ out[3].id > 2

\* the Message events sent on the channel so far
MessagesEnqueued ==
    Cardinality({i \in 1..Len(enqueued) : enqueued[i].ev = "Message"})

\* C18: once the Receiver is gone nothing is enqueued any more; a send the
\* stdin thread attempts then ends the thread with Ok, a send the timer thread
\* attempts ends the timer thread, neither tries again, and main_loop's outcome
\* is not changed by it: an error main_loop returns after the handshake is a
\* read or decode error of the stdin thread.
BenignSendFailure ==
    /\ [][~rx =>
            /\ queue' = queue
            /\ enqueued' = enqueued
            /\ (StdinMessage \/ StdinEof) =>
                  /\ jh' = "ok"
                  /\ "tx" \notin senders'
                  /\ mainpc' = mainpc
            /\ TimerTick =>
                  /\ timer' = "stopped"
                  /\ "_tx" \notin senders'
                  /\ nticks' = nticks
                  /\ mainpc' = mainpc
                  /\ jh' = jh
            /\ jh = "ok" => jh' = "ok"
            /\ timer = "stopped" => timer' = "stopped"]_vars
    /\ []((mainpc = "err" /\ jh # "none") =>
            /\ jh \in {"read_err", "decode_err"}
            /\ jh = "decode_err" => nread > MessagesEnqueued)

BenignSendFailure_witness ==
    /\ ~rx
    /\ mainpc = "panic"
    /\ jh = "ok"
    /\ timer = "stopped"
    /\ senders = {}
    /\ nread > MessagesEnqueued

\* the Message events stepped so far
MessagesStepped ==
    Cardinality({i \in 1..Len(stepped) : stepped[i].ev = "Message"})

\* C19: the broadcast node's id counter is 1 + the number of Message events
\* stepped; every Message step advances it by one, replying or not, and
\* Injected and Shutdown steps leave it unchanged; the reply to the k-th
\* message stepped has msg_id k + 1.
CounterCountsMessages ==
    /\ [](node.id = 1 + MessagesStepped)
    /\ [][Stepping =>
            /\ Input.ev = "Message" => node'.id = node.id + 1
            /\ Input.ev \in {"Injected", "Shutdown"} => node'.id = node.id
            /\ \A i \in 1..Len(Written) : Written[i].id = MessagesStepped' + 1]_vars

CounterCountsMessages_witness ==
    /\ Len(stepped) = 5
    /\ stepped[1].msg.payload.type = "gossip"
    /\ stepped[2].msg.payload.type = "read"
    /\ stepped[3].ev = "Injected"
    /\ stepped[4].msg.payload.type = "broadcast_ok"
    /\ stepped[5].msg.payload.type = "broadcast"
    /\ node.id = 5
    /\ Len(out) = 3
    /\ out[2].id = 3
    /\ out[3].id = 5

\* the ids of init.node_ids
NodeIds == Range(init_msg.payload.node_ids)

\* C20: the keys of the knowledge map are init.node_ids at all times; stepping
\* a Gossip whose src is not one of them, or an Injected tick while a neighbor
\* is not one of them, panics, writes nothing and leaves the delivered set and
\* the knowledge map as they were.
KnownKeysFixed ==
    /\ [](DOMAIN node.known = NodeIds)
    /\ [][(/\ Stepping
           /\ \/ /\ Input.ev = "Message"
                 /\ Input.msg.payload.type = "gossip"
                 /\ Input.msg.src \notin NodeIds
              \/ /\ Input.ev = "Injected"
                 /\ \E i \in 1..Len(node.neighbors) : node.neighbors[i] \notin NodeIds)
          => /\ mainpc' = "panic"
             /\ Written = <<>>
             /\ node'.messages = node.messages
             /\ node'.known = node.known]_vars

KnownKeysFixed_witness ==
    /\ mainpc = "panic"
    /\ Last(stepped).ev = "Injected"
    /\ node.neighbors = <<StrangerId>>
    /\ node.messages # {}
    /\ node.known[PeerId] # {}
    /\ DOMAIN node.known = {OwnId, PeerId}

====
